---- MODULE Spec2Model ----
(***************************************************************************)
(* Packet routing core of the Artemis Teensy flight software: the main     *)
(* loop (main.cpp: loop, route_packets and its helpers) and the Raspberry  *)
(* Pi channel thread (channels/rpi_channel.cpp), exchanging packets        *)
(* through the shared queues main_queue and rpi_queue.                     *)
(*                                                                         *)
(* Threads are preemptive (TeensyThreads, 10 ms slices): a step is at most *)
(* one access to state that another thread can reach.  The queue           *)
(* primitives PushQueue and PullQueue, kill_thread and the registry        *)
(* thread_list live in artemis_channels.cpp; they are modelled as          *)
(* documented: lock, one std::deque operation, unlock.                     *)
(***************************************************************************)
EXTENDS Integers, Sequences, FiniteSets, TLC

(* ------------------------------ bounds -------------------------------- *)
\* Packets the receiving channels push onto main_queue in one behaviour.
MaxInject == 3
\* Thread slots the scheduler has left for Raspberry Pi channel threads.
MaxRpiThreads == 2
\* readInterval in main-loop delays (the flight value is 200 of them).
ReadIntervalTicks == 2

(* ---------------------------- enumerations ---------------------------- *)
GROUND_NODE_ID == "ground"
RPI_NODE_ID == "pi"
TEENSY_NODE_ID == "teensy"

RFM23_CHANNEL == "RFM23_CHANNEL"
PDU_CHANNEL == "PDU_CHANNEL"
RPI_CHANNEL == "RPI_CHANNEL"

CommandObcPing == "CommandObcPing"
DataObcPong == "DataObcPong"
CommandEpsCommunicate == "CommandEpsCommunicate"
CommandEpsSwitchName == "CommandEpsSwitchName"
CommandEpsSwitchStatus == "CommandEpsSwitchStatus"
CommandObcSendBeacon == "CommandObcSendBeacon"
CommandObcHalt == "CommandObcHalt"
DataEpsResponse == "DataEpsResponse"
CommandCameraCapture == "CommandCameraCapture"

\* Devices::PDU::PDU_SW values carried in data[0] of a switch packet.
PDU_SW_All == 1
PDU_SW_5V_1 == 3
PDU_SW_RPI == 13

LOW == 0
HIGH == 1

\* "Pong" as bytes.
PongData == <<80, 111, 110, 103>>

(* ------------------------------ packets ------------------------------- *)
\* PacketComm: the header fields the router reads and the payload.  C++
\* data[i] is data[i + 1] here.
Pkt(type, nodeorig, nodedest, chanout, data) ==
  [type |-> type, nodeorig |-> nodeorig, nodedest |-> nodedest,
   chanout |-> chanout, data |-> data]

\* A default-constructed PacketComm.
EmptyPacket == Pkt("None", "none", "none", "none", <<>>)

PingRadio == Pkt(CommandObcPing, GROUND_NODE_ID, TEENSY_NODE_ID, RFM23_CHANNEL, <<>>)
PingOther == Pkt(CommandObcPing, GROUND_NODE_ID, TEENSY_NODE_ID, PDU_CHANNEL, <<>>)
ToPi == Pkt(CommandCameraCapture, GROUND_NODE_ID, RPI_NODE_ID, RFM23_CHANNEL, <<7>>)
ToGroundRadio ==
  Pkt(DataEpsResponse, TEENSY_NODE_ID, GROUND_NODE_ID, RFM23_CHANNEL, <<5>>)
ToGroundOther ==
  Pkt(DataEpsResponse, TEENSY_NODE_ID, GROUND_NODE_ID, PDU_CHANNEL, <<5>>)
SwitchPiOff ==
  Pkt(CommandEpsSwitchName, GROUND_NODE_ID, TEENSY_NODE_ID, RFM23_CHANNEL, <<PDU_SW_RPI, 0, 0>>)
SwitchPiOn ==
  Pkt(CommandEpsSwitchName, GROUND_NODE_ID, TEENSY_NODE_ID, RFM23_CHANNEL, <<PDU_SW_RPI, 1, 1>>)
SwitchPiArg1 ==
  Pkt(CommandEpsSwitchName, GROUND_NODE_ID, TEENSY_NODE_ID, RFM23_CHANNEL, <<PDU_SW_RPI, 1, 0>>)
StatusPi ==
  Pkt(CommandEpsSwitchStatus, GROUND_NODE_ID, TEENSY_NODE_ID, PDU_CHANNEL, <<PDU_SW_RPI>>)
Switch5V ==
  Pkt(CommandEpsSwitchName, GROUND_NODE_ID, TEENSY_NODE_ID, RFM23_CHANNEL, <<PDU_SW_5V_1, 1, 0>>)
SwitchViaPi ==
  Pkt(CommandEpsSwitchName, GROUND_NODE_ID, RPI_NODE_ID, RFM23_CHANNEL, <<PDU_SW_5V_1, 1, 0>>)
SendBeacon == Pkt(CommandObcSendBeacon, GROUND_NODE_ID, TEENSY_NODE_ID, RFM23_CHANNEL, <<>>)

\* What the receiving channels (radio, power unit) push onto main_queue.
Inputs ==
  {PingRadio, PingOther, ToPi, ToGroundRadio, SwitchPiOff, SwitchPiOn, SwitchPiArg1,
   StatusPi, Switch5V, SendBeacon, ToGroundOther, SwitchViaPi}

\* The packets that act on the Raspberry Pi's power or ask for its state.
PowerInputs == {ToPi, SwitchPiOff, SwitchPiOn, StatusPi}

\* The packets that make the main thread wait and the channel threads run.
LoopInputs == {ToPi, SwitchPiOff}

\* Packets for the ground, with the packets that start and stop a channel thread.
GroundInputs == {ToGroundRadio, ToGroundOther, ToPi, SwitchPiOff}

(* ------------------------------- state -------------------------------- *)
VARIABLES
  main_queue,        \* std::deque<PacketComm> main_queue, each entry with its push number
  rpi_queue,         \* std::deque<PacketComm> rpi_queue
  rpi_queue_mtx,     \* set of threads holding rpi_queue_mtx
  rpi_race,          \* elements popped without the lock while another thread held it
  packet,            \* main.cpp: PacketComm packet
  rpc,               \* where the main thread is in loop()
  thread_list,       \* registry: sequence of {thread_id, channel_id}
  rpi_enable,        \* level of the RPI_ENABLE pin
  tpc,               \* where each Raspberry Pi channel thread is
  rpi_packet,        \* rpi_channel.cpp: PacketComm packet (one for all instances)
  rpi_packetized,    \* rpi_packet.packetized: <<>> or <<the packet framed>>
  kill_channel,      \* rpi_channel.cpp: bool kill_channel
  sent,              \* what the last step wrote to Serial2: <<>> or <<[thread, frame]>>
  deploymentmode,    \* bool deploymentmode
  deploymentbeacon,  \* elapsedMillis deploymentbeacon, in ticks, saturating
  injected,          \* number of packets pushed onto main_queue so far
  popped,            \* the packet the last call of route_packets pulled
  out,               \* what that call enqueued: <<queue, packet>>, in order
  beacon_out,        \* what the last step's beacon_if_deployed enqueued
  halted,            \* per running thread: it wrote a halt frame in its shutdown
  since_beacon,      \* main-loop delays since beacon_if_deployed last emitted, saturating
  sensed,            \* what ensure_rpi_is_powered() read in the last step, if it ran
  slip               \* how SLIPPacketize() ended in the last step, if it ran

vars ==
  <<main_queue, rpi_queue, rpi_queue_mtx, rpi_race, packet, rpc,
    thread_list, rpi_enable, tpc, rpi_packet, rpi_packetized, kill_channel, sent,
    deploymentmode, deploymentbeacon, injected, popped, out,
    beacon_out, halted, since_beacon, sensed, slip>>

\* Thread 0 is the main thread, 1 and 2 the radio and power-unit channels.
RpiThreads == 3..(2 + MaxRpiThreads)

Min(a, b) == IF a < b THEN a ELSE b

\* setup(): pins configured, the radio and power-unit threads registered,
\* both file-scope packets default-constructed, kill_channel = false.
Init ==
  /\ main_queue = <<>> /\ rpi_queue = <<>>
  /\ rpi_queue_mtx = {} /\ rpi_race = <<>>
  /\ packet = EmptyPacket
  /\ rpc = "loop"
  /\ thread_list = <<[thread_id |-> 1, channel_id |-> RFM23_CHANNEL],
                     [thread_id |-> 2, channel_id |-> PDU_CHANNEL]>>
  /\ rpi_enable = LOW
  /\ tpc = [t \in RpiThreads |-> "none"]
  /\ rpi_packet = EmptyPacket /\ rpi_packetized = <<>>
  /\ kill_channel = FALSE
  /\ sent = <<>>
  /\ deploymentmode \in BOOLEAN
  /\ deploymentbeacon = 0
  /\ injected = 0
  /\ popped = EmptyPacket /\ out = <<>> /\ beacon_out = <<>>
  /\ halted = [t \in RpiThreads |-> FALSE]
  /\ since_beacon = 0
  /\ sensed = "none"
  /\ slip = "none"

(* --------------------------- main.cpp helpers -------------------------- *)
\* send_pong_reply(): the reply built in place in the shared packet.
send_pong_reply(p) ==
  [p EXCEPT !.nodedest = p.nodeorig, !.nodeorig = TEENSY_NODE_ID,
            !.type = DataObcPong, !.data = PongData]

\* A route_packet_to_ground() that hands every packet to the radio channel.
route_packet_to_ground_any_chanout(p) == <<p>>

\* route_packet_to_ground(): the packets handed to route_packet_to_rfm23.
route_packet_to_ground(p) ==
  IF p.chanout = RFM23_CHANNEL THEN <<p>> ELSE <<>>

\* A report_rpi_enabled() that answers "enabled" without reading the pin.
report_rpi_enabled_always_high(p, pin) ==
  [p EXCEPT !.data = <<(IF Len(p.data) >= 1 THEN p.data[1] ELSE 0), HIGH>>,
            !.type = DataEpsResponse, !.nodedest = p.nodeorig,
            !.nodeorig = TEENSY_NODE_ID]

\* report_rpi_enabled(): data.resize(1), push_back(digitalRead(RPI_ENABLE)).
report_rpi_enabled(p, pin) ==
  [p EXCEPT !.data = <<(IF Len(p.data) >= 1 THEN p.data[1] ELSE 0), pin>>,
            !.type = DataEpsResponse, !.nodedest = p.nodeorig,
            !.nodeorig = TEENSY_NODE_ID]

\* update_pdu_switches(): a status request for all switches, built in place.
update_pdu_switches(p) ==
  [p EXCEPT !.type = CommandEpsSwitchStatus, !.nodeorig = GROUND_NODE_ID,
            !.nodedest = TEENSY_NODE_ID, !.data = <<PDU_SW_All>>]

\* An ensure_rpi_is_powered() that powers on without looking at the voltage.
ensure_rpi_is_powered_any_voltage(p, present, volts_ok) ==
  IF ~present
  THEN [packet |-> p, pdu |-> <<>>, power |-> TRUE,
        read |-> IF volts_ok THEN "absent_ok" ELSE "absent_low"]
  ELSE [packet |-> p, pdu |-> <<>>, power |-> FALSE, read |-> "present"]

\* ensure_rpi_is_powered(): present is digitalRead(UART6_RX), volts_ok is
\* getBusVoltage_V() >= 7.0.  power: enable_rpi() and the 5 s delay follow;
\* read: what the call found.
ensure_rpi_is_powered(p, present, volts_ok) ==
  IF ~present
  THEN IF volts_ok
       THEN [packet |-> p, pdu |-> <<>>, power |-> TRUE, read |-> "absent_ok"]
       ELSE [packet |-> update_pdu_switches(p), pdu |-> <<update_pdu_switches(p)>>,
             power |-> FALSE, read |-> "absent_low"]
  ELSE [packet |-> p, pdu |-> <<>>, power |-> FALSE, read |-> "present"]

\* A switch on CommandEpsSwitchName that keeps the Raspberry Pi's off
\* command in the router instead of handing it to the channel.
route_switch_name_off_consumed(p, present, volts_ok) ==
  IF p.data[1] = PDU_SW_RPI
  THEN IF p.data[2] = 0
       THEN [packet |-> p, rfm23 |-> <<>>, pdu |-> <<>>, power |-> FALSE, fwd |-> FALSE,
             read |-> "none"]
       ELSE IF p.data[3] = 1
       THEN [packet |-> p, rfm23 |-> <<>>, pdu |-> <<>>, power |-> TRUE, fwd |-> FALSE,
             read |-> "none"]
       ELSE LET e == ensure_rpi_is_powered(p, present, volts_ok)
            IN  [packet |-> e.packet, rfm23 |-> <<>>, pdu |-> e.pdu,
                 power |-> e.power, fwd |-> FALSE, read |-> e.read]
  ELSE [packet |-> p, rfm23 |-> <<>>, pdu |-> <<p>>, power |-> FALSE, fwd |-> FALSE,
        read |-> "none"]

\* The switch on a CommandEpsSwitchName packet addressed to the Teensy.
\* fwd: route_packet_to_rpi(packet) follows.
route_switch_name(p, present, volts_ok) ==
  IF p.data[1] = PDU_SW_RPI
  THEN IF p.data[2] = 0
       THEN [packet |-> p, rfm23 |-> <<>>, pdu |-> <<>>, power |-> FALSE, fwd |-> TRUE,
             read |-> "none"]
       ELSE IF p.data[3] = 1
       THEN [packet |-> p, rfm23 |-> <<>>, pdu |-> <<>>, power |-> TRUE, fwd |-> FALSE,
             read |-> "none"]
       ELSE LET e == ensure_rpi_is_powered(p, present, volts_ok)
            IN  [packet |-> e.packet, rfm23 |-> <<>>, pdu |-> e.pdu,
                 power |-> e.power, fwd |-> FALSE, read |-> e.read]
  ELSE [packet |-> p, rfm23 |-> <<>>, pdu |-> <<p>>, power |-> FALSE, fwd |-> FALSE,
        read |-> "none"]

\* The switch on a CommandEpsSwitchStatus packet addressed to the Teensy.
route_switch_status(p, pin) ==
  IF p.data[1] = PDU_SW_RPI
  THEN [packet |-> report_rpi_enabled(p, pin), rfm23 |-> <<report_rpi_enabled(p, pin)>>,
        pdu |-> <<>>, power |-> FALSE, fwd |-> FALSE, read |-> "none"]
  ELSE [packet |-> p, rfm23 |-> <<>>, pdu |-> <<p>>, power |-> FALSE, fwd |-> FALSE,
        read |-> "none"]

\* route_packets() after a successful PullQueue: what the dispatch on
\* nodedest and type does with packet p.
route_packets(p, pin, present, volts_ok) ==
  IF p.nodedest = GROUND_NODE_ID
  THEN [packet |-> p, rfm23 |-> route_packet_to_ground(p), pdu |-> <<>>,
        power |-> FALSE, fwd |-> FALSE, read |-> "none"]
  ELSE IF p.nodedest = RPI_NODE_ID
  THEN LET e == ensure_rpi_is_powered(p, present, volts_ok)
       IN  [packet |-> e.packet, rfm23 |-> <<>>, pdu |-> e.pdu, power |-> e.power,
            fwd |-> TRUE, read |-> e.read]
  ELSE IF p.nodedest = TEENSY_NODE_ID
  THEN CASE p.type = CommandObcPing ->
              [packet |-> send_pong_reply(p),
               rfm23 |-> route_packet_to_ground(send_pong_reply(p)), pdu |-> <<>>,
               power |-> FALSE, fwd |-> FALSE, read |-> "none"]
         [] p.type = CommandEpsCommunicate ->
              [packet |-> p, rfm23 |-> <<>>, pdu |-> <<p>>, power |-> FALSE,
               fwd |-> FALSE, read |-> "none"]
         [] p.type = CommandEpsSwitchName -> route_switch_name(p, present, volts_ok)
         [] p.type = CommandEpsSwitchStatus -> route_switch_status(p, pin)
         [] p.type = CommandObcSendBeacon ->
              [packet |-> update_pdu_switches(p), rfm23 |-> <<>>,
               pdu |-> <<update_pdu_switches(p)>>, power |-> FALSE, fwd |-> FALSE,
               read |-> "none"]
         [] OTHER ->
              [packet |-> p, rfm23 |-> <<>>, pdu |-> <<>>, power |-> FALSE,
               fwd |-> FALSE, read |-> "none"]
  ELSE [packet |-> p, rfm23 |-> <<>>, pdu |-> <<>>, power |-> FALSE, fwd |-> FALSE,
        read |-> "none"]

\* threads.addThread(): the first slot that is empty or ended, -1 (here 0)
\* when there is none or the stack cannot be allocated.
addThread(ok) ==
  LET free == {t \in RpiThreads : tpc[t] \in {"none", "ended"}}
  IN  IF ok /\ free # {} THEN CHOOSE t \in free : \A u \in free : t <= u ELSE 0

\* The log of enqueues of one route_packets call.
Enq(queue, pkts) == [i \in 1..Len(pkts) |-> <<queue, pkts[i]>>]

\* elapsedMillis deploymentbeacon after one more delay of the main thread.
Tick(ms) == Min(ReadIntervalTicks, ms + 1)

(* ---------------------------- the main thread -------------------------- *)
\* A beacon_if_deployed() that sends its beacons and leaves the timer running.
beacon_if_deployed_no_reset(p, mode, ms) ==
  IF mode /\ ms >= ReadIntervalTicks
  THEN [packet |-> update_pdu_switches(p), pdu |-> <<update_pdu_switches(p)>>,
        timer |-> ms]
  ELSE [packet |-> p, pdu |-> <<>>, timer |-> ms]

\* beacon_if_deployed(): the shared packet and the timer after the call;
\* pdu is the status request update_pdu_switches() enqueues after
\* beacon_artemis_devices() has read the sensors.
beacon_if_deployed(p, mode, ms) ==
  IF mode /\ ms >= ReadIntervalTicks
  THEN [packet |-> update_pdu_switches(p), pdu |-> <<update_pdu_switches(p)>>,
        timer |-> 0]
  ELSE [packet |-> p, pdu |-> <<>>, timer |-> ms]

\* A loop() whose PullQueue takes the back of main_queue, not the front.
RouterLoop_pull_back ==
  /\ rpc = "loop"
  /\ LET b == beacon_if_deployed(packet, deploymentmode, deploymentbeacon)
         n == Len(main_queue)
     IN  /\ beacon_out' = Enq("pdu_queue", b.pdu)
         /\ IF main_queue = <<>>
            THEN /\ packet' = b.packet
                 /\ deploymentbeacon' = Tick(b.timer)
                 /\ since_beacon' = Tick(IF b.pdu = <<>> THEN since_beacon ELSE 0)
                 /\ popped' = EmptyPacket
                 /\ UNCHANGED <<main_queue, rpc>>
            ELSE /\ packet' = main_queue[n].pkt
                 /\ main_queue' = SubSeq(main_queue, 1, n - 1)
                 /\ deploymentbeacon' = b.timer
                 /\ since_beacon' = IF b.pdu = <<>> THEN since_beacon ELSE 0
                 /\ popped' = main_queue[n].pkt
                 /\ rpc' = "dispatch"
  /\ out' = <<>>
  /\ sent' = <<>>
  /\ sensed' = "none"
  /\ slip' = "none"
  /\ UNCHANGED <<rpi_queue, rpi_queue_mtx, rpi_race, thread_list, rpi_enable, tpc,
                 rpi_packet, rpi_packetized, kill_channel, deploymentmode, injected,
                 halted>>

\* loop(): beacon_if_deployed(), then route_packets() calls PullQueue(packet,
\* main_queue, main_queue_mtx): on an empty queue the iteration ends with
\* gps.update() and threads.delay(100), otherwise the front is copied into
\* packet and popped.
RouterLoop ==
  /\ rpc = "loop"
  /\ LET b == beacon_if_deployed(packet, deploymentmode, deploymentbeacon)
     IN  /\ beacon_out' = Enq("pdu_queue", b.pdu)
         /\ IF main_queue = <<>>
            THEN /\ packet' = b.packet
                 /\ deploymentbeacon' = Tick(b.timer)
                 /\ since_beacon' = Tick(IF b.pdu = <<>> THEN since_beacon ELSE 0)
                 /\ popped' = EmptyPacket
                 /\ UNCHANGED <<main_queue, rpc>>
            ELSE /\ packet' = Head(main_queue).pkt
                 /\ main_queue' = Tail(main_queue)
                 /\ deploymentbeacon' = b.timer
                 /\ since_beacon' = IF b.pdu = <<>> THEN since_beacon ELSE 0
                 /\ popped' = Head(main_queue).pkt
                 /\ rpc' = "dispatch"
  /\ out' = <<>>
  /\ sent' = <<>>
  /\ sensed' = "none"
  /\ slip' = "none"
  /\ UNCHANGED <<rpi_queue, rpi_queue_mtx, rpi_race, thread_list, rpi_enable, tpc,
                 rpi_packet, rpi_packetized, kill_channel, deploymentmode, injected,
                 halted>>

\* enable_rpi(): RPI_ENABLE high, the channel thread started and registered.
enable_rpi(ok) ==
  /\ rpi_enable' = HIGH
  /\ LET id == addThread(ok)
     IN  IF id = 0
         THEN UNCHANGED <<tpc, thread_list, halted>>
         ELSE /\ tpc' = [tpc EXCEPT ![id] = "setup"]
              /\ thread_list' =
                   Append(thread_list, [thread_id |-> id, channel_id |-> RPI_CHANNEL])
              /\ halted' = [halted EXCEPT ![id] = FALSE]

\* route_packets(): the dispatch of the pulled packet, up to the first
\* delay or the push onto rpi_queue.  digitalRead(UART6_RX), the bus
\* voltage and the outcome of addThread() are the environment's.  With
\* nothing to forward and no power-on the iteration ends: gps.update(),
\* threads.delay(100).
RouterDispatch ==
  /\ rpc = "dispatch"
  /\ \E present \in BOOLEAN, volts_ok \in BOOLEAN, ok \in BOOLEAN :
       LET r == route_packets(packet, rpi_enable, present, volts_ok)
       IN  /\ packet' = r.packet
           /\ sensed' = r.read
           /\ out' = out \o Enq("rfm23_queue", r.rfm23) \o Enq("pdu_queue", r.pdu)
           /\ IF r.power
              THEN enable_rpi(ok)
              ELSE UNCHANGED <<rpi_enable, tpc, thread_list, halted>>
           /\ rpc' = IF r.power THEN (IF r.fwd THEN "boot_fwd" ELSE "boot")
                     ELSE IF r.fwd THEN "fwd_lock" ELSE "loop"
           /\ deploymentbeacon' =
                IF r.power \/ r.fwd THEN deploymentbeacon ELSE Tick(deploymentbeacon)
           /\ since_beacon' =
                IF r.power \/ r.fwd THEN since_beacon ELSE Tick(since_beacon)
  /\ sent' = <<>>
  /\ beacon_out' = <<>>
  /\ slip' = "none"
  /\ popped' = IF rpc = "loop" THEN EmptyPacket ELSE popped
  /\ UNCHANGED <<main_queue, rpi_queue, rpi_queue_mtx, rpi_race, rpi_packet,
                 rpi_packetized, kill_channel, deploymentmode, injected>>

\* threads.delay(5000) after enable_rpi(); with nothing to forward the
\* iteration ends after it.
RouterBootDelay ==
  /\ rpc \in {"boot_fwd", "boot"}
  /\ rpc' = IF rpc = "boot_fwd" THEN "fwd_lock" ELSE "loop"
  /\ deploymentbeacon' = Tick(deploymentbeacon)
  /\ since_beacon' = Tick(since_beacon)
  /\ sent' = <<>>
  /\ beacon_out' = <<>>
  /\ sensed' = "none"
  /\ slip' = "none"
  /\ out' = IF rpc = "loop" THEN <<>> ELSE out
  /\ popped' = IF rpc = "loop" THEN EmptyPacket ELSE popped
  /\ UNCHANGED <<main_queue, rpi_queue, rpi_queue_mtx, rpi_race, packet, thread_list,
                 rpi_enable, tpc, rpi_packet, rpi_packetized, kill_channel,
                 deploymentmode, injected, halted>>

\* route_packet_to_rpi(packet): PushQueue takes rpi_queue_mtx.
RouterFwdLock ==
  /\ rpc = "fwd_lock"
  /\ rpi_queue_mtx = {}
  /\ rpi_queue_mtx' = {0}
  /\ rpc' = "fwd"
  /\ sent' = <<>>
  /\ beacon_out' = <<>>
  /\ sensed' = "none"
  /\ slip' = "none"
  /\ out' = IF rpc = "loop" THEN <<>> ELSE out
  /\ popped' = IF rpc = "loop" THEN EmptyPacket ELSE popped
  /\ UNCHANGED <<main_queue, rpi_queue, rpi_race, packet, thread_list, rpi_enable,
                 tpc, rpi_packet, rpi_packetized, kill_channel, deploymentmode,
                 deploymentbeacon, injected, halted, since_beacon>>

\* The deque after the lock holder's operation left it as q, when unlocked
\* pops overlapped the operation (rpi_race holds what they popped): the two
\* writers of the deque's start either serialise, or the holder writes back
\* a start it read before the pops and the popped elements are in again.
Raced(q) ==
  IF rpi_race = <<>> THEN {q} ELSE {q, rpi_race \o q}

\* PushQueue: push_back(packet), unlock; the iteration ends.
RouterFwd ==
  /\ rpc = "fwd"
  /\ rpi_queue' \in Raced(Append(rpi_queue, packet))
  /\ out' = out \o Enq("rpi_queue", <<packet>>)
  /\ rpi_queue_mtx' = {}
  /\ rpi_race' = <<>>
  /\ rpc' = "loop"
  /\ deploymentbeacon' = Tick(deploymentbeacon)
  /\ since_beacon' = Tick(since_beacon)
  /\ sent' = <<>>
  /\ beacon_out' = <<>>
  /\ sensed' = "none"
  /\ slip' = "none"
  /\ popped' = IF rpc = "loop" THEN EmptyPacket ELSE popped
  /\ UNCHANGED <<main_queue, packet, thread_list, rpi_enable, tpc, rpi_packet,
                 rpi_packetized, kill_channel, deploymentmode, injected, halted>>

Router ==
  RouterLoop \/ RouterDispatch \/ RouterBootDelay \/ RouterFwdLock \/ RouterFwd

(* ------------------------ the receiving channels ----------------------- *)
\* A channel thread received a packet: PushQueue(packet, main_queue,
\* main_queue_mtx).
Receive(traffic) ==
  /\ injected < MaxInject
  /\ \E p \in traffic :
       main_queue' = Append(main_queue, [seq |-> injected + 1, pkt |-> p])
  /\ injected' = injected + 1
  /\ sent' = <<>>
  /\ beacon_out' = <<>>
  /\ sensed' = "none"
  /\ slip' = "none"
  /\ out' = IF rpc = "loop" THEN <<>> ELSE out
  /\ popped' = IF rpc = "loop" THEN EmptyPacket ELSE popped
  /\ UNCHANGED <<rpi_queue, rpi_queue_mtx, rpi_race, packet, rpc, thread_list,
                 rpi_enable, tpc, rpi_packet, rpi_packetized, kill_channel,
                 deploymentmode, deploymentbeacon, halted, since_beacon>>

(* ------------------- channels/rpi_channel.cpp: a thread ---------------- *)
\* rpi_channel(): setup() opens Serial2, then loop() starts.
ChannelSetup(t) ==
  /\ tpc[t] = "setup"
  /\ tpc' = [tpc EXCEPT ![t] = "pull"]
  /\ sent' = <<>>
  /\ beacon_out' = <<>>
  /\ sensed' = "none"
  /\ slip' = "none"
  /\ out' = IF rpc = "loop" THEN <<>> ELSE out
  /\ popped' = IF rpc = "loop" THEN EmptyPacket ELSE popped
  /\ UNCHANGED <<main_queue, rpi_queue, rpi_queue_mtx, rpi_race, packet, rpc,
                 thread_list, rpi_enable, rpi_packet, rpi_packetized, kill_channel,
                 deploymentmode, deploymentbeacon, injected, halted, since_beacon>>

\* handle_queue(): PullQueue(packet, rpi_queue, rpi_queue_mtx): lock; on an
\* empty queue nothing, otherwise the front is copied into the channel's
\* packet (its packetized buffer with it) and popped; unlock.
ChannelPull(t) ==
  /\ tpc[t] = "pull"
  /\ rpi_queue_mtx = {}
  /\ IF rpi_queue = <<>>
     THEN /\ tpc' = [tpc EXCEPT ![t] = "poll"]
          /\ UNCHANGED <<rpi_queue, rpi_packet, rpi_packetized>>
     ELSE /\ rpi_packet' = Head(rpi_queue)
          /\ rpi_packetized' = <<>>
          /\ rpi_queue' = Tail(rpi_queue)
          /\ tpc' = [tpc EXCEPT ![t] = "hq_switch"]
  /\ sent' = <<>>
  /\ beacon_out' = <<>>
  /\ sensed' = "none"
  /\ slip' = "none"
  /\ out' = IF rpc = "loop" THEN <<>> ELSE out
  /\ popped' = IF rpc = "loop" THEN EmptyPacket ELSE popped
  /\ UNCHANGED <<main_queue, rpi_queue_mtx, rpi_race, packet, rpc, thread_list,
                 rpi_enable, kill_channel, deploymentmode, deploymentbeacon,
                 injected, halted, since_beacon>>

\* handle_queue(): where the switch on packet.header.type leads.
handle_queue(p) ==
  IF p.type = CommandEpsSwitchName
  THEN IF p.data[1] = PDU_SW_RPI /\ p.data[2] = 0 THEN "sd_type" ELSE "poll"
  ELSE "send"

ChannelSwitch(t) ==
  /\ tpc[t] = "hq_switch"
  /\ tpc' = [tpc EXCEPT ![t] = handle_queue(rpi_packet)]
  /\ sent' = <<>>
  /\ beacon_out' = <<>>
  /\ sensed' = "none"
  /\ slip' = "none"
  /\ out' = IF rpc = "loop" THEN <<>> ELSE out
  /\ popped' = IF rpc = "loop" THEN EmptyPacket ELSE popped
  /\ UNCHANGED <<main_queue, rpi_queue, rpi_queue_mtx, rpi_race, packet, rpc,
                 thread_list, rpi_enable, rpi_packet, rpi_packetized, kill_channel,
                 deploymentmode, deploymentbeacon, injected, halted, since_beacon>>

\* send_to_pi(): SLIPPacketize() frames the packet or fails and leaves
\* packetized as it was; every byte of packetized is written either way.
send_to_pi(t, ok) ==
  LET framed == IF ok THEN <<rpi_packet>> ELSE rpi_packetized
  IN  /\ rpi_packetized' = framed
      /\ slip' = IF ok THEN "ok" ELSE "failed"
      /\ sent' = [i \in 1..Len(framed) |-> [thread |-> t, frame |-> framed[i]]]
      /\ halted' = [halted EXCEPT ![t] =
                      halted[t] \/ (framed # <<>> /\ framed[1].type = CommandObcHalt)]

\* handle_queue(): default case, send_to_pi().
ChannelSend(t) ==
  /\ tpc[t] = "send"
  /\ \E ok \in BOOLEAN : send_to_pi(t, ok)
  /\ tpc' = [tpc EXCEPT ![t] = "poll"]
  /\ beacon_out' = <<>>
  /\ sensed' = "none"
  /\ out' = IF rpc = "loop" THEN <<>> ELSE out
  /\ popped' = IF rpc = "loop" THEN EmptyPacket ELSE popped
  /\ UNCHANGED <<main_queue, rpi_queue, rpi_queue_mtx, rpi_race, packet, rpc,
                 thread_list, rpi_enable, rpi_packet, kill_channel, deploymentmode,
                 deploymentbeacon, injected, since_beacon>>

\* shut_down_pi(): packet.header.type = CommandObcHalt.
ShutDownType(t) ==
  /\ tpc[t] = "sd_type"
  /\ rpi_packet' = [rpi_packet EXCEPT !.type = CommandObcHalt]
  /\ tpc' = [tpc EXCEPT ![t] = "sd_send"]
  /\ sent' = <<>>
  /\ beacon_out' = <<>>
  /\ sensed' = "none"
  /\ slip' = "none"
  /\ out' = IF rpc = "loop" THEN <<>> ELSE out
  /\ popped' = IF rpc = "loop" THEN EmptyPacket ELSE popped
  /\ UNCHANGED <<main_queue, rpi_queue, rpi_queue_mtx, rpi_race, packet, rpc,
                 thread_list, rpi_enable, rpi_packetized, kill_channel,
                 deploymentmode, deploymentbeacon, injected, halted, since_beacon>>

\* shut_down_pi(): send_to_pi().
ShutDownSend(t) ==
  /\ tpc[t] = "sd_send"
  /\ \E ok \in BOOLEAN : send_to_pi(t, ok)
  /\ tpc' = [tpc EXCEPT ![t] = "sd_delay"]
  /\ beacon_out' = <<>>
  /\ sensed' = "none"
  /\ out' = IF rpc = "loop" THEN <<>> ELSE out
  /\ popped' = IF rpc = "loop" THEN EmptyPacket ELSE popped
  /\ UNCHANGED <<main_queue, rpi_queue, rpi_queue_mtx, rpi_race, packet, rpc,
                 thread_list, rpi_enable, rpi_packet, kill_channel, deploymentmode,
                 deploymentbeacon, injected, since_beacon>>

\* shut_down_pi(): threads.delay(20000).
ShutDownDelay(t) ==
  /\ tpc[t] = "sd_delay"
  /\ tpc' = [tpc EXCEPT ![t] = "sd_low"]
  /\ sent' = <<>>
  /\ beacon_out' = <<>>
  /\ sensed' = "none"
  /\ slip' = "none"
  /\ out' = IF rpc = "loop" THEN <<>> ELSE out
  /\ popped' = IF rpc = "loop" THEN EmptyPacket ELSE popped
  /\ UNCHANGED <<main_queue, rpi_queue, rpi_queue_mtx, rpi_race, packet, rpc,
                 thread_list, rpi_enable, rpi_packet, rpi_packetized, kill_channel,
                 deploymentmode, deploymentbeacon, injected, halted, since_beacon>>

\* shut_down_pi(): digitalWrite(RPI_ENABLE, LOW).
ShutDownLow(t) ==
  /\ tpc[t] = "sd_low"
  /\ rpi_enable' = LOW
  /\ tpc' = [tpc EXCEPT ![t] = "sd_flush"]
  /\ sent' = <<>>
  /\ beacon_out' = <<>>
  /\ sensed' = "none"
  /\ slip' = "none"
  /\ out' = IF rpc = "loop" THEN <<>> ELSE out
  /\ popped' = IF rpc = "loop" THEN EmptyPacket ELSE popped
  /\ UNCHANGED <<main_queue, rpi_queue, rpi_queue_mtx, rpi_race, packet, rpc,
                 thread_list, rpi_packet, rpi_packetized, kill_channel,
                 deploymentmode, deploymentbeacon, injected, halted, since_beacon>>

\* shut_down_pi(): one round of while (!rpi_queue.empty()) pop_front(),
\* without rpi_queue_mtx.  A pop made while another thread holds the lock
\* overlaps that thread's operation on the deque.
ShutDownFlush(t) ==
  /\ tpc[t] = "sd_flush"
  /\ IF rpi_queue = <<>>
     THEN /\ tpc' = [tpc EXCEPT ![t] = "sd_kill"]
          /\ UNCHANGED <<rpi_queue, rpi_race>>
     ELSE /\ rpi_queue' = Tail(rpi_queue)
          /\ rpi_race' = IF rpi_queue_mtx = {} THEN rpi_race
                         ELSE Append(rpi_race, Head(rpi_queue))
          /\ UNCHANGED tpc
  /\ sent' = <<>>
  /\ beacon_out' = <<>>
  /\ sensed' = "none"
  /\ slip' = "none"
  /\ out' = IF rpc = "loop" THEN <<>> ELSE out
  /\ popped' = IF rpc = "loop" THEN EmptyPacket ELSE popped
  /\ UNCHANGED <<main_queue, rpi_queue_mtx, packet, rpc, thread_list, rpi_enable,
                 rpi_packet, rpi_packetized, kill_channel, deploymentmode,
                 deploymentbeacon, injected, halted, since_beacon>>

\* kill_thread(channel): the calling channel's entry leaves the registry and
\* the scheduler is asked to end its thread.
kill_thread(t, channel) ==
  LET hits == {i \in 1..Len(thread_list) :
                 thread_list[i].thread_id = t /\ thread_list[i].channel_id = channel}
  IN  IF hits = {} THEN thread_list
      ELSE LET k == CHOOSE i \in hits : \A j \in hits : i <= j
           IN  SubSeq(thread_list, 1, k - 1) \o SubSeq(thread_list, k + 1, Len(thread_list))

\* shut_down_pi(): kill_thread(Channel_ID::RPI_CHANNEL).
ShutDownKill(t) ==
  /\ tpc[t] = "sd_kill"
  /\ thread_list' = kill_thread(t, RPI_CHANNEL)
  /\ tpc' = [tpc EXCEPT ![t] = "sd_flag"]
  /\ sent' = <<>>
  /\ beacon_out' = <<>>
  /\ sensed' = "none"
  /\ slip' = "none"
  /\ out' = IF rpc = "loop" THEN <<>> ELSE out
  /\ popped' = IF rpc = "loop" THEN EmptyPacket ELSE popped
  /\ UNCHANGED <<main_queue, rpi_queue, rpi_queue_mtx, rpi_race, packet, rpc,
                 rpi_enable, rpi_packet, rpi_packetized, kill_channel,
                 deploymentmode, deploymentbeacon, injected, halted, since_beacon>>

\* shut_down_pi(): kill_channel = true, and back to loop().
ShutDownFlag(t) ==
  /\ tpc[t] = "sd_flag"
  /\ kill_channel' = TRUE
  /\ tpc' = [tpc EXCEPT ![t] = "poll"]
  /\ sent' = <<>>
  /\ beacon_out' = <<>>
  /\ sensed' = "none"
  /\ slip' = "none"
  /\ out' = IF rpc = "loop" THEN <<>> ELSE out
  /\ popped' = IF rpc = "loop" THEN EmptyPacket ELSE popped
  /\ UNCHANGED <<main_queue, rpi_queue, rpi_queue_mtx, rpi_race, packet, rpc,
                 thread_list, rpi_enable, rpi_packet, rpi_packetized, deploymentmode,
                 deploymentbeacon, injected, halted, since_beacon>>

\* loop(): after handle_queue(), receive_from_pi() (a stub) and
\* threads.delay(100): if (kill_channel) return; otherwise the next iteration.
ChannelPoll(t) ==
  /\ tpc[t] = "poll"
  /\ tpc' = [tpc EXCEPT ![t] = IF kill_channel THEN "ended" ELSE "pull"]
  /\ halted' = [halted EXCEPT ![t] = halted[t] /\ ~kill_channel]
  /\ sent' = <<>>
  /\ beacon_out' = <<>>
  /\ sensed' = "none"
  /\ slip' = "none"
  /\ out' = IF rpc = "loop" THEN <<>> ELSE out
  /\ popped' = IF rpc = "loop" THEN EmptyPacket ELSE popped
  /\ UNCHANGED <<main_queue, rpi_queue, rpi_queue_mtx, rpi_race, packet, rpc,
                 thread_list, rpi_enable, rpi_packet, rpi_packetized, kill_channel,
                 deploymentmode, deploymentbeacon, injected, since_beacon>>

Channel(t) ==
  \/ ChannelSetup(t) \/ ChannelPull(t) \/ ChannelSwitch(t)
  \/ ChannelSend(t) \/ ShutDownType(t) \/ ShutDownSend(t) \/ ShutDownDelay(t)
  \/ ShutDownLow(t) \/ ShutDownFlush(t) \/ ShutDownKill(t) \/ ShutDownFlag(t)
  \/ ChannelPoll(t)

(* ---------------------------- specification ---------------------------- *)
\* Every kind of traffic, deployment mode on or off.
Next == Router \/ Receive(Inputs) \/ \E t \in RpiThreads : Channel(t)

Spec == Init /\ [][Next]_vars

\* Power traffic for the Raspberry Pi only, deployment mode off.
PowerInit == Init /\ deploymentmode = FALSE

PowerNext == Router \/ Receive(PowerInputs) \/ \E t \in RpiThreads : Channel(t)

PowerSpec == PowerInit /\ [][PowerNext]_vars

\* Packets for the Raspberry Pi and its off command only.
LoopNext == Router \/ Receive(LoopInputs) \/ \E t \in RpiThreads : Channel(t)

\* The scheduler is round-robin: the main thread gets its slice in every
\* round, whatever the channel threads do.
Fairness == WF_vars(Router)

FairLoopSpec == PowerInit /\ [][LoopNext]_vars /\ Fairness

\* Every channel thread that can run gets its slices as well.
ChannelFairness == \A t \in RpiThreads : WF_vars(Channel(t))

FairDrainSpec == PowerInit /\ [][LoopNext]_vars /\ Fairness /\ ChannelFairness

\* Ground traffic, deployment mode off.
GroundNext == Router \/ Receive(GroundInputs) \/ \E t \in RpiThreads : Channel(t)

GroundSpec == PowerInit /\ [][GroundNext]_vars

\* The same traffic, deployment mode on or off.
BeaconSpec == Init /\ [][LoopNext]_vars

(* ------------------------------- claims -------------------------------- *)
\* The main thread has just finished an iteration that pulled a packet:
\* popped is that packet and out what route_packets enqueued for it.
Dispatched == rpc = "loop" /\ popped # EmptyPacket

\* The queues of the channels that reach the ground.
GroundQueues == {"rfm23_queue"}

IsPing(p) == p.nodedest = TEENSY_NODE_ID /\ p.type = CommandObcPing

IsPong(p, ping) ==
  /\ p.type = DataObcPong
  /\ p.nodedest = ping.nodeorig
  /\ p.nodeorig = TEENSY_NODE_ID

\* C1: every ping addressed to the Teensy, whatever its other header fields,
\* is answered with exactly one pong (to the ping's origin, from the Teensy)
\* enqueued once on a ground egress queue.
C1_PingAnsweredOnce ==
  (Dispatched /\ IsPing(popped)) =>
    /\ Len(out) = 1
    /\ out[1][1] \in GroundQueues
    /\ IsPong(out[1][2], popped)

\* The registry entries of the Raspberry Pi channel.
RpiEntries == {i \in DOMAIN thread_list : thread_list[i].channel_id = RPI_CHANNEL}

\* The Raspberry Pi channel threads that were started and have not ended.
RpiRunning == {t \in RpiThreads : tpc[t] \notin {"none", "ended"}}

\* C2: however often ensure_rpi_is_powered() is called while the presence
\* signal reads absent, there is never a second Raspberry Pi channel thread
\* nor a second RPI_CHANNEL entry in thread_list.
C2_NoDuplicatePowerOn ==
  /\ Cardinality(RpiEntries) <= 1
  /\ Cardinality(RpiRunning) <= 1

\* C3: when the router enqueues a packet addressed to the Raspberry Pi on
\* rpi_queue, RPI_ENABLE is asserted and a registered channel thread is
\* running to drain the queue.
C3_PoweredBeforeForward ==
  (rpc = "fwd" /\ popped.nodedest = RPI_NODE_ID) =>
    /\ rpi_enable = HIGH
    /\ \E i \in RpiEntries : thread_list[i].thread_id \in RpiRunning

\* C4: a channel thread in shut_down_pi() is past send_to_pi() only after it
\* has written a halt frame: RPI_ENABLE is never driven LOW, and the queue
\* never flushed, before the halt command was transmitted.
C4_HaltBeforePowerOff ==
  \A t \in RpiThreads :
    tpc[t] \in {"sd_delay", "sd_low", "sd_flush", "sd_kill", "sd_flag"} => halted[t]

\* C5: when a channel thread completes shut_down_pi() (its last statement,
\* kill_channel = true), rpi_queue is empty, whatever the router enqueued
\* while the shutdown was in progress.
C5_EmptyAfterShutdown ==
  [][(\E t \in RpiThreads : tpc[t] = "sd_flag" /\ tpc'[t] = "poll")
       => rpi_queue' = <<>>]_vars

\* One push at the back of queue q, giving r.
IsPush(q, r) == Len(r) = Len(q) + 1 /\ SubSeq(r, 1, Len(q)) = q

\* One pop at the front of queue q, giving r.
IsPop(q, r) == q # <<>> /\ r = Tail(q)

C7_QueueAccessUnderLock ==
  /\ \A t \in RpiThreads : tpc[t] = "sd_flush" => rpi_queue_mtx = {t}
  /\ 0 \in rpi_queue_mtx => rpc = "fwd"

\* A switch command for the Raspberry Pi with arg0 (C++ data[1]) = 0.
IsSwitchPiArg0(p) ==
  /\ p.nodedest = TEENSY_NODE_ID
  /\ p.type = CommandEpsSwitchName
  /\ p.data[1] = PDU_SW_RPI
  /\ p.data[2] = 0

\* C8: the router does not consume a switch command {Raspberry Pi, arg0 = 0}:
\* the dispatch enqueues nothing, leaves the packet and the power state
\* (pin, threads, registry) alone and goes on to the push, and the push puts
\* exactly the pulled packet at the back of rpi_queue; nothing else is
\* enqueued in the iteration.
C8_SwitchOffForwardedVerbatim ==
  [][/\ (rpc = "dispatch" /\ rpc' # "dispatch" /\ IsSwitchPiArg0(packet)) =>
          /\ rpc' = "fwd_lock"
          /\ out' = <<>>
          /\ packet' = popped
          /\ UNCHANGED <<rpi_enable, tpc, thread_list, rpi_queue>>
     /\ (rpc = "fwd" /\ rpc' # "fwd" /\ IsSwitchPiArg0(popped)) =>
          /\ rpc' = "loop"
          /\ out' = << <<"rpi_queue", popped>> >>
          /\ rpi_queue' # <<>>
          /\ rpi_queue'[Len(rpi_queue')] = popped
          /\ UNCHANGED <<rpi_enable, tpc, thread_list>>]_vars

C8_Witness ==
  /\ Dispatched
  /\ IsSwitchPiArg0(popped)
  /\ out = << <<"rpi_queue", popped>> >>
  /\ rpi_queue # <<>>
  /\ rpi_queue[Len(rpi_queue)] = popped

\* A switch status query for the Raspberry Pi.
IsStatusPi(p) ==
  /\ p.nodedest = TEENSY_NODE_ID
  /\ p.type = CommandEpsSwitchStatus
  /\ p.data # <<>>
  /\ p.data[1] = PDU_SW_RPI

\* C9: a status query for the Raspberry Pi gets exactly one reply, a
\* DataEpsResponse from the Teensy to the query's origin, whose second
\* payload byte is the level of RPI_ENABLE when the reply was built.
C9_StatusReportsPin ==
  (Dispatched /\ IsStatusPi(popped)) =>
    /\ Len(out) = 1
    /\ out[1][2].type = DataEpsResponse
    /\ out[1][2].nodedest = popped.nodeorig
    /\ out[1][2].nodeorig = TEENSY_NODE_ID
    /\ out[1][2].data = <<PDU_SW_RPI, rpi_enable>>

\* The reply says "enabled" while a channel thread is in the grace delay of
\* its shutdown.
C9_Witness ==
  /\ Dispatched
  /\ IsStatusPi(popped)
  /\ out # <<>>
  /\ out[1][2].data = <<PDU_SW_RPI, HIGH>>
  /\ \E t \in RpiThreads : tpc[t] \in {"sd_delay", "sd_low"}

\* C10: main_queue changes only by a push at the back or by the one pull at
\* the start of an iteration of the main loop, which takes the packet pushed
\* longest ago and hands it to the dispatch; and under fair scheduling,
\* whenever packets wait, the main thread pulls again, so that every packet
\* pushed onto main_queue is eventually pulled and dispatched.
C10_OnePerIterationInOrder ==
  /\ [][main_queue' # main_queue =>
          \/ IsPush(main_queue, main_queue')
          \/ /\ rpc = "loop" /\ rpc' = "dispatch"
             /\ main_queue' = Tail(main_queue)
             /\ Head(main_queue).seq = injected - Len(main_queue) + 1
             /\ packet' = Head(main_queue).pkt]_vars
  /\ (main_queue # <<>> /\ rpc # "dispatch") ~> (rpc = "dispatch")

\* A packet was pulled while others pushed after it stay queued.
C10_Witness ==
  /\ rpc = "dispatch"
  /\ Len(main_queue) >= 2
  /\ main_queue[1].seq = 2
  /\ popped = packet

\* C11: beacon_if_deployed() emits (sensor beacons and the power-unit status
\* refresh) only in deployment mode and only when at least readInterval has
\* passed since it last emitted: a call made earlier than that after an
\* emitting call enqueues nothing, and with deployment mode off no call ever
\* emits.
C11_BeaconOncePerInterval ==
  [][/\ beacon_out' # <<>> =>
          /\ rpc = "loop"
          /\ deploymentmode
          /\ since_beacon >= ReadIntervalTicks
          /\ Len(beacon_out') = 1
     /\ ~deploymentmode => beacon_out' = <<>>]_vars

\* A call that emitted nothing, made after an emitting call and before the
\* interval was over (no packet was ever received: the status request in the
\* shared packet is the one the beacon built).
C11_Witness ==
  /\ deploymentmode
  /\ injected = 0
  /\ rpc = "loop"
  /\ packet = update_pdu_switches(EmptyPacket)
  /\ beacon_out = <<>>
  /\ since_beacon >= 1

\* The outbound queue of a channel.
ChannelQueue(chan) ==
  CASE chan = RFM23_CHANNEL -> "rfm23_queue"
    [] chan = PDU_CHANNEL -> "pdu_queue"
    [] chan = RPI_CHANNEL -> "rpi_queue"
    [] OTHER -> "none"

\* C12 as stated: every pulled packet addressed to the ground is enqueued
\* exactly once, unchanged, on the outbound queue of the channel its chanout
\* names, and never on the Raspberry Pi's or the power unit's queue.
C12_GroundRoutedByChanout ==
  (Dispatched /\ popped.nodedest = GROUND_NODE_ID) =>
    /\ Len(out) = 1
    /\ out[1][1] = ChannelQueue(popped.chanout)
    /\ out[1][2] = popped
    /\ out[1][1] \notin {"rpi_queue", "pdu_queue"}

\* C12 as the code has it: a pulled packet addressed to the ground is
\* enqueued exactly once, unchanged, on the radio channel's queue when its
\* chanout is RFM23_CHANNEL; with any other chanout nothing is enqueued
\* anywhere and the packet is dropped.  The shared packet, the pin and the
\* channel threads are left alone.
C12_GroundOnlyByRadio ==
  (Dispatched /\ popped.nodedest = GROUND_NODE_ID) =>
    /\ out = IF popped.chanout = RFM23_CHANNEL
             THEN << <<"rfm23_queue", popped>> >> ELSE <<>>
    /\ packet = popped

\* A packet for the ground whose chanout is RFM23_CHANNEL went out, once, on
\* the radio channel's queue.
C12_Witness ==
  /\ Dispatched
  /\ popped.nodedest = GROUND_NODE_ID
  /\ popped.chanout = RFM23_CHANNEL
  /\ out = << <<"rfm23_queue", popped>> >>

\* C13: when enable_rpi() cannot start the channel thread (addThread returns
\* -1), the power-on leaves no trace: no RPI_CHANNEL entry is added to
\* thread_list, and RPI_ENABLE is not left asserted unless a registered
\* channel thread is running to serve the Raspberry Pi.
C13_StartFailureContained ==
  [][(rpc = "dispatch" /\ rpc' \in {"boot", "boot_fwd"} /\ tpc' = tpc) =>
       /\ thread_list' = thread_list
       /\ rpi_enable' = HIGH =>
            \E i \in RpiEntries : thread_list[i].thread_id \in RpiRunning]_vars

\* The switch-status request for all switches.
IsStatusAll(p) ==
  /\ p.type = CommandEpsSwitchStatus
  /\ p.nodedest = TEENSY_NODE_ID
  /\ p.data = <<PDU_SW_All>>

\* C14: a dispatch that runs ensure_rpi_is_powered() changes the pin or the
\* channel threads only when the presence signal read absent and the bus
\* voltage was at least 7.0 V, and then it asserts RPI_ENABLE.  With the
\* signal present it does nothing at all (no pin write, no thread start, no
\* enqueue, the shared packet untouched); with the signal absent and the
\* voltage lower it leaves the pin and the threads alone and enqueues exactly
\* one switch-status request for all switches on the power unit's queue.
C14_PowerOnOnlyAbsentAndVolts ==
  [][(rpc = "dispatch" /\ sensed' # "none") =>
       /\ sensed' = "present" =>
            /\ UNCHANGED <<rpi_enable, tpc, thread_list, packet, out>>
       /\ sensed' = "absent_low" =>
            /\ UNCHANGED <<rpi_enable, tpc, thread_list>>
            /\ Len(out') = 1
            /\ out'[1][1] = "pdu_queue"
            /\ IsStatusAll(out'[1][2])
       /\ sensed' = "absent_ok" =>
            /\ rpi_enable' = HIGH
            /\ out' = out
            /\ rpc' \in {"boot", "boot_fwd"}
       /\ UNCHANGED <<main_queue, rpi_queue>>]_vars

\* The call found the Raspberry Pi absent and the voltage low: the pin is
\* low, no thread was started, the status request is on the power unit's queue.
C14_Witness ==
  /\ sensed = "absent_low"
  /\ rpi_enable = LOW
  /\ RpiRunning = {}
  /\ Len(out) = 1
  /\ out[1][1] = "pdu_queue"
  /\ IsStatusAll(out[1][2])

\* The power-off command for the Raspberry Pi as the channel recognises it.
IsOffForPi(p) ==
  /\ p.type = CommandEpsSwitchName
  /\ p.data[1] = PDU_SW_RPI
  /\ p.data[2] = 0

\* C15: whatever packet a channel thread pulled from rpi_queue, its switch on
\* the type hands it to send_to_pi() unless it is the power-off command for
\* the Raspberry Pi, which starts the shutdown; no other packet is consumed
\* without being transmitted.
C15_ChannelTransmitsAllButOff ==
  [][\A t \in RpiThreads :
       (tpc[t] = "hq_switch" /\ tpc'[t] # "hq_switch") =>
         tpc'[t] = IF IsOffForPi(rpi_packet) THEN "sd_type" ELSE "send"]_vars

\* C16: a send_to_pi() whose SLIPPacketize() failed writes nothing to Serial2
\* (the packet is dropped), and the thread goes on: to the end of the loop
\* iteration, or to the grace delay when it was sending the halt command.
C16_FramingFailureDrops ==
  [][\A t \in RpiThreads :
       (tpc[t] \in {"send", "sd_send"} /\ tpc'[t] # tpc[t] /\ slip' = "failed") =>
         /\ sent' = <<>>
         /\ tpc'[t] = IF tpc[t] = "send" THEN "poll" ELSE "sd_delay"]_vars

\* C17: from the moment kill_channel is set no channel thread pulls a packet
\* from rpi_queue or writes to Serial2 any more, and a thread that reaches
\* the poll point of its loop ends there.
C17_CancelAtPollPoint ==
  [][kill_channel =>
       /\ sent' = <<>>
       /\ \A t \in RpiThreads :
            /\ tpc'[t] = "hq_switch" => tpc[t] = "hq_switch"
            /\ (tpc[t] = "poll" /\ tpc'[t] # "poll") => tpc'[t] = "ended"]_vars

\* C18: the iteration that pulled a packet addressed to the Raspberry Pi ends
\* with that very packet (type, origin, destination, chanout, payload)
\* enqueued on rpi_queue, whatever ensure_rpi_is_powered() read and did.
C18_ForwardedUnchanged ==
  (Dispatched /\ popped.nodedest = RPI_NODE_ID) =>
    /\ out # <<>>
    /\ out[Len(out)] = <<"rpi_queue", popped>>
    /\ \A i \in 1..(Len(out) - 1) : out[i][1] # "rpi_queue"

\* C19: a channel thread leaves its loop only through its own shutdown, which
\* takes its entry out of thread_list first: every RPI_CHANNEL entry of the
\* registry names a thread that is running, also for a channel started after
\* an earlier instance was shut down.
C19_RegisteredIsRunning ==
  \A i \in RpiEntries : thread_list[i].thread_id \in RpiRunning

\* The receiving channels have not delivered all their packets yet.
MoreToReceive == injected < MaxInject

\* C20: under fair scheduling of the main thread and of the channel threads,
\* no packet stays in rpi_queue: whenever the queue holds packets, a channel
\* thread pulls them or its shutdown flush discards them, and the queue is
\* empty again.  Behaviours in which the receiving channels deliver all the
\* packets they have are left out: a packet that stays queued does so while
\* more traffic can still arrive.
C20_RpiQueueDrains ==
  (rpi_queue # <<>>) ~> (rpi_queue = <<>> \/ ~MoreToReceive)

====
